---- MODULE Spec2Model ----
(***************************************************************************)
(* Model of app.py (domain filter): the suffix splitter, the word-combo    *)
(* matcher, the brandability scorer and the two batch pipelines            *)
(* (run_filter, run_brandables).                                            *)
(*                                                                         *)
(* Python strings are sequences of one-character strings:                  *)
(*   "sun.com"  is  <<"s","u","n",".","c","o","m">>.                       *)
(***************************************************************************)
EXTENDS Integers, Sequences, FiniteSets, TLC

VARIABLES
    mode,            \* "exact" | "broad" | "brandables" : which button ran
    useTldx,         \* _TLDX is not None
    words,           \* the loaded dictionary (set of strings)
    settings,        \* brand_settings
    files,           \* the file items: [given, items]; when not given, the
                     \* environment supplies files and lines as they are read
    fidx,            \* number of file items the outer loop has entered
    suffix,          \* fi.suffix of the file being scanned
    ridx,            \* lines of the current file the iterator has consumed
    pc,              \* position of the run / of the call
    results_com,     \* run-local list
    results_others,  \* run-local list
    seen,            \* run-local set of full domains
    processed,       \* run-local counter
    ret,             \* (processed, len(files)) as returned, NoRet before
    yielded,         \* history: records the iterators have yielded so far
    first_seen,      \* history: the full domains of the records scanned so
                     \* far, each once, in the order of their first occurrence
    arg,             \* argument of a single function call
    out              \* result of a single function call

vars == <<mode, useTldx, words, settings, files, fidx, suffix, ridx, pc,
          results_com, results_others, seen, processed, ret, yielded,
          first_seen, arg, out>>

---------------------------------------------------------------------------
(* Python str primitives *)

LowerLetters == {"a","b","c","d","e","f","g","h","i","j","k","l","m",
                 "n","o","p","q","r","s","t","u","v","w","x","y","z"}

UpperSeq == <<"A","B","C","D","E","F","G","H","I","J","K","L","M",
              "N","O","P","Q","R","S","T","U","V","W","X","Y","Z">>

LowerSeq == <<"a","b","c","d","e","f","g","h","i","j","k","l","m",
              "n","o","p","q","r","s","t","u","v","w","x","y","z">>

Whitespace == {" "}

UpperLetters == {UpperSeq[i] : i \in 1..Len(UpperSeq)}

LowerOf == [c \in UpperLetters |->
              LowerSeq[CHOOSE i \in 1..Len(UpperSeq) : UpperSeq[i] = c]]

\* str.lower() on one character
LowerChar(c) == IF c \in UpperLetters THEN LowerOf[c] ELSE c

\* mutant of lower(): the lower-casing is forgotten
lowerForgotten(s) == s

\* str.lower()
lower(s) == [i \in 1..Len(s) |-> LowerChar(s[i])]

\* s[a:b] with 0-based Python slice bounds, 0 <= a, b <= len(s)
Slice(s, a, b) == IF b <= a THEN <<>> ELSE SubSeq(s, a + 1, b)

\* str.strip()
strip(s) ==
    LET keep == {i \in 1..Len(s) : s[i] \notin Whitespace}
    IN  IF keep = {} THEN <<>>
        ELSE LET lo == CHOOSE i \in keep : \A j \in keep : i <= j
                 hi == CHOOSE i \in keep : \A j \in keep : j <= i
             IN  SubSeq(s, lo, hi)

\* the characters of s that are in the set keep, in order
\* (re.sub of a negated character class by "", str.replace(c, ""))
KeepChars(s, keep) == SelectSeq(s, LAMBDA c : c \in keep)

DropChar(s, ch) == SelectSeq(s, LAMBDA c : c # ch)

\* ch in s
Contains(s, ch) == \E i \in 1..Len(s) : s[i] = ch

\* str.startswith
startswith(s, p) == Len(s) >= Len(p) /\ SubSeq(s, 1, Len(p)) = p

\* str.split(sep) for a one-character separator: always >= 1 part
RECURSIVE split(_, _)
split(s, sep) ==
    IF \A i \in 1..Len(s) : s[i] # sep
    THEN <<s>>
    ELSE LET k == CHOOSE i \in 1..Len(s) :
                      s[i] = sep /\ \A j \in 1..(i - 1) : s[j] # sep
         IN  <<SubSeq(s, 1, k - 1)>> \o split(SubSeq(s, k + 1, Len(s)), sep)

\* sep.join(parts)
RECURSIVE join(_, _)
join(parts, sep) ==
    IF Len(parts) = 0 THEN <<>>
    ELSE IF Len(parts) = 1 THEN parts[1]
    ELSE parts[1] \o <<sep>> \o join(Tail(parts), sep)

---------------------------------------------------------------------------
(* WORDLIST *)

\* the lines of words_alpha.txt
WORDLIST_FILE ==
    << <<"S","u","n">>,
       <<"f","l","o","w","e","r">>,
       <<" ","s","u","n","f","l","o","w","e","r"," ">>,
       <<"o","f">>,
       <<>> >>

load_words(lines) ==
    { lower(strip(lines[i])) : i \in {j \in 1..Len(lines) : Len(strip(lines[j])) > 2} }

---------------------------------------------------------------------------
(* DOMAIN PARSING *)

\* (None, None): both fields falsy
None == [sld |-> <<>>, tld |-> <<>>]

\* the suffixes the public suffix list of the resolver knows
PublicSuffixes ==
    { <<"c","o","m">>, <<"n","e","t">>, <<"u","k">>, <<"c","o",".","u","k">> }

\* _TLDX(d): (domain, suffix) by the longest public suffix of the host;
\* suffix is empty when no suffix is known, domain is empty when the
\* whole host is a suffix.
TLDX(d) ==
    LET parts == split(d, ".")
        n     == Len(parts)
        ks    == {k \in 1..n : join(SubSeq(parts, n - k + 1, n), ".") \in PublicSuffixes}
    IN  IF ks = {} THEN [domain |-> IF n >= 1 THEN parts[n] ELSE <<>>, suffix |-> <<>>]
        ELSE LET k == CHOOSE x \in ks : \A y \in ks : y <= x
             IN  [domain |-> IF n - k >= 1 THEN parts[n - k] ELSE <<>>,
                  suffix |-> join(SubSeq(parts, n - k + 1, n), ".")]

\* d = domain.strip().lower().replace('"', ""); strip scheme; strip www.
NormalizeRaw(domain) ==
    LET d0 == DropChar(lower(strip(domain)), "\"")
        d1 == IF startswith(d0, <<"h","t","t","p","s",":","/","/">>)
                 THEN SubSeq(d0, 9, Len(d0))
              ELSE IF startswith(d0, <<"h","t","t","p",":","/","/">>)
                 THEN SubSeq(d0, 8, Len(d0))
              ELSE d0
    IN  IF startswith(d1, <<"w","w","w",".">>) THEN SubSeq(d1, 5, Len(d1)) ELSE d1

\* re.sub(r"[^a-z\-]", "", sld), with a mutant that forgets to strip digits
CleanLabelKeepDigits(sld) ==
    KeepChars(sld, LowerLetters \cup {"-"} \cup {"0","1","2","3","4","5","6","7","8","9"})

CleanLabel(sld) == KeepChars(sld, LowerLetters \cup {"-"})

get_sld_and_tld(domain, tldx) ==
    LET d == NormalizeRaw(domain)
    IN  IF tldx
        THEN LET ext == TLDX(d)
             IN  IF ext.domain = <<>> \/ ext.suffix = <<>> THEN None
                 ELSE LET sld_clean == CleanLabel(ext.domain)
                      IN  IF sld_clean = <<>> \/ ext.suffix = <<>> THEN None
                          ELSE [sld |-> sld_clean, tld |-> ext.suffix]
        ELSE LET parts == split(d, ".")
             IN  IF Len(parts) < 2 THEN None
                 ELSE LET tld == parts[Len(parts)]
                          sld_clean == CleanLabel(parts[Len(parts) - 1])
                      IN  IF sld_clean = <<>> \/ tld = <<>> THEN None
                          ELSE [sld |-> sld_clean, tld |-> tld]

---------------------------------------------------------------------------
(* MATCH MODES *)

is_exact_word(sld, word_set) ==
    IF sld = <<>> \/ (\E i \in 1..Len(sld) : sld[i] = "-") THEN FALSE
    ELSE sld \in word_set

\* range(3, len(sld) - 2), with a mutant that stops one split too early
ConcatSplitsShort(sld) == 3..(Len(sld) - 4)

ConcatSplits(sld) == 3..(Len(sld) - 3)

is_valid_english_combo(sld, word_set) ==
    IF sld = <<>> THEN FALSE
    ELSE IF sld \in word_set THEN TRUE
    ELSE IF /\ \E i \in 1..Len(sld) : sld[i] = "-"
            /\ LET parts == SelectSeq(split(sld, "-"), LAMBDA p : p # <<>>)
               IN  Len(parts) >= 2 /\ \A k \in 1..Len(parts) : parts[k] \in word_set
         THEN TRUE
    ELSE \E i \in ConcatSplits(sld) :
            Slice(sld, 0, i) \in word_set /\ Slice(sld, i, Len(sld)) \in word_set

---------------------------------------------------------------------------
(* BRANDABLES *)

VOWELS == {"a","e","i","o","u","y"}

UI_DEFAULT_ALLOWED ==
    { <<"C","V","C","V">>, <<"C","V","C","V","C">>, <<"C","V","C","C","V">>,
      <<"C","V","C","V","C","V">>, <<"C","V","C","V","V","C">>,
      <<"C","V","V","C">>, <<"V","C","C","V">>,
      <<"C","V","C","V","C","V","V","C">> }

\* the literal set of brandability_score's recipe bonus
RECIPE_PATTERNS ==
    { <<"C","V","C","V">>, <<"C","V","V","C">>, <<"V","C","C","V">>, <<"V","C","V","C">>,
      <<"C","V","C","V","C">>, <<"C","V","C","C","V">>, <<"C","V","C","V","V">>,
      <<"V","C","V","C","V">>, <<"V","C","C","V","C">>,
      <<"C","V","C","V","C","V">>, <<"C","V","C","V","V","C">>, <<"C","V","C","C","V","C">>,
      <<"C","V","C","C","V","V">>, <<"V","C","V","C","V","C">>, <<"V","C","C","V","C","V">>,
      <<"C","V","C","V","C","V","C">>, <<"C","V","C","V","V","C","V">>,
      <<"C","V","C","V","C","V","V">>, <<"C","V","C","C","V","C","V">>,
      <<"C","V","C","C","V","V","C">>, <<"V","C","C","V","C","V","C">>,
      <<"C","V","C","V","C","V","C","V">>, <<"C","V","C","V","C","V","V","C">>,
      <<"C","V","C","V","V","C","V","C">>, <<"C","V","C","C","V","C","V","C">>,
      <<"C","V","C","C","V","V","C","V">>, <<"V","C","C","V","C","V","C","V">> }

RARE_LETTERS == {"q","x","z","j"}
DISALLOW_START == {"q","x"}
DISALLOW_END == {"q","x"}
BAD_BIGRAMS ==
    { <<"q","x">>, <<"x","q">>, <<"q","j">>, <<"j","q">>, <<"q","z">>, <<"z","q">>,
      <<"w","x">>, <<"x","w">>, <<"v","j">>, <<"j","v">>, <<"z","x">>, <<"x","z">>,
      <<"q","h">>, <<"q","k">>, <<"q","c">>, <<"q","g">>, <<"q","t">>, <<"q","d">>,
      <<"q","b">> }

cv_full_pattern(s) == [i \in 1..Len(s) |-> IF s[i] \in VOWELS THEN "V" ELSE "C"]

Min(a, b) == IF a <= b THEN a ELSE b

\* re.search(rf"(.{n})\1{reps-1,}", s): some chunk of n characters is
\* followed by at least reps-1 further copies of itself
ChunkRepeatsAt(s, n, reps) ==
    \E i \in 0..(Len(s) - n * reps) :
        \A r \in 1..(reps - 1) :
            Slice(s, i + r * n, i + (r + 1) * n) = Slice(s, i, i + n)

\* range(chunk_min, min(4, len(s) // repeats) + 1), with a mutant whose
\* longest chunk is 3
ChunkSizesTo3(s, chunk_min, repeats) == chunk_min..Min(3, Len(s) \div repeats)

ChunkSizes(s, chunk_min, repeats) == chunk_min..Min(4, Len(s) \div repeats)

has_repeated_chunk(s, chunk_min, repeats) ==
    \E n \in ChunkSizes(s, chunk_min, repeats) : ChunkRepeatsAt(s, n, repeats)

\* re.search(rf"[^aeiouy]{k,}", s)
ConsonantRun(s, k) ==
    \E i \in 1..(Len(s) - k + 1) : \A j \in i..(i + k - 1) : s[j] \notin VOWELS

\* re.search(r"(XY){4,}", pat)
Alternates(pat, x, y) ==
    \E i \in 1..(Len(pat) - 7) : SubSeq(pat, i, i + 7) = <<x, y, x, y, x, y, x, y>>

Count(s, set) == Cardinality({i \in 1..Len(s) : s[i] \in set})

HardReject == [score |-> -999, pat |-> <<>>]

\* vowel_min and vowel_max are held in hundredths, so that
\* vowel_min <= vcount/len(s) is vowel_min * len(s) <= 100 * vcount.
brandability_score(s0, st) ==
    LET s == lower(s0)
        n == Len(s)
        rare_count == Count(s, RARE_LETTERS)
        run_pat == cv_full_pattern(s)
        vcount == Count(s, VOWELS)
        lenTerm == IF 5 <= n /\ n <= 9 THEN 12
                   ELSE IF 4 <= n /\ n <= 11 THEN 6 ELSE -8
        vowelTerm ==
            IF st.vowel_min * n <= 100 * vcount /\ 100 * vcount <= st.vowel_max * n
               THEN 25
            ELSE IF (st.vowel_min - 8) * n <= 100 * vcount
                    /\ 100 * vcount <= (st.vowel_max + 8) * n
               THEN 10
            ELSE -18
        runTerm == IF ConsonantRun(s, st.max_consonant_run + 1) THEN -30
                   ELSE IF ConsonantRun(s, st.max_consonant_run) THEN -12 ELSE 0
        altTerm == IF Alternates(run_pat, "C", "V") \/ Alternates(run_pat, "V", "C")
                   THEN -18 ELSE 0
        recipeTerm == IF run_pat \in RECIPE_PATTERNS THEN 6 ELSE 0
    IN  IF n = 0 \/ \E i \in 1..n : s[i] \notin LowerLetters THEN HardReject
        ELSE IF n < st.min_len \/ n > st.max_len THEN HardReject
        ELSE IF \E i \in 1..n : s[i] = "-" THEN HardReject
        ELSE IF st.reject_dictionary_words /\ s \in st.words THEN HardReject
        ELSE IF rare_count > st.max_rare_letters THEN HardReject
        ELSE IF st.strict_brandables
                /\ (\/ s[1] \in DISALLOW_START
                    \/ s[n] \in DISALLOW_END
                    \/ \E i \in 1..(n - 1) : SubSeq(s, i, i + 1) \in BAD_BIGRAMS)
             THEN HardReject
        ELSE IF \E i \in 1..(n - 2) : s[i] = s[i + 1] /\ s[i + 1] = s[i + 2]
             THEN HardReject
        ELSE IF st.reject_repeats /\ has_repeated_chunk(s, 2, 3) THEN HardReject
        ELSE IF Cardinality({s[i] : i \in 1..n}) < st.min_unique_chars THEN HardReject
        ELSE IF st.allowed_run_patterns # {} /\ run_pat \notin st.allowed_run_patterns
             THEN [score |-> -50, pat |-> run_pat]
        ELSE [score |-> lenTerm - 10 * rare_count + vowelTerm + runTerm
                        + altTerm + recipeTerm,
              pat |-> run_pat]

---------------------------------------------------------------------------
(* INPUT READING *)

TXT == <<".","t","x","t">>
CSV == <<".","c","s","v">>

\* iter_domains_from_text_bytes, one line of the decoded text at a time.
\* Lines carry no quote characters, so a csv row is the line split on
\* commas and an empty line is an empty row.
\* Yields: the line produces a record (".csv": `if not row: continue`;
\* otherwise: `if not raw: continue`).
Yields(line, sfx) ==
    IF lower(sfx) = CSV THEN line # <<>> ELSE strip(line) # <<>>

\* the record yielded for the line
RecordOf(line, sfx) ==
    IF lower(sfx) = CSV THEN strip(split(line, ",")[1])
    ELSE strip(split(strip(line), ",")[1])

---------------------------------------------------------------------------
(* BATCH PIPELINES: run_filter and run_brandables *)

MaxFiles == 2
MaxRecs == 2

NoRet == [processed |-> -1, nfiles |-> -1]

Full(sld, tld) == sld \o <<".">> \o tld

Range(f) == {f[i] : i \in DOMAIN f}

\* `if full in seen: continue`, with a mutant that never skips
AlreadySeenNever(full, s) == FALSE

AlreadySeen(full, s) == full \in s

\* `if tld == "com"`, with a mutant that tests a prefix
IsComPrefix(tld) == startswith(tld, <<"c","o">>)

IsCom(tld) == tld = <<"c","o","m">>

\* list.append, with a mutant that inserts at the front
AppendFront(bucket, item) == <<item>> \o bucket

AppendResult(bucket, item) == Append(bucket, item)

\* `processed += 1` at the top of the loop body, with a mutant that
\* counts only the records that survive the split
TallySplitOnly(p, r) == IF r = None THEN p ELSE p + 1

Tally(p, r) == p + 1

\* `if score < settings["score_threshold"]: continue`, with a mutant
\* that admits every record
AdmitsAll(score, threshold) == TRUE

Admits(score, threshold) == ~(score < threshold)

\* list.sort(key=lambda x: x[1], reverse=True): stable, descending.
\* Insert each item after the items whose score is >= its own.
RECURSIVE InsertDesc(_, _)
InsertDesc(sorted, item) ==
    IF sorted = <<>> THEN <<item>>
    ELSE IF Head(sorted).score >= item.score
         THEN <<Head(sorted)>> \o InsertDesc(Tail(sorted), item)
         ELSE <<item>> \o sorted

RECURSIVE InsertAsc(_, _)
InsertAsc(sorted, item) ==
    IF sorted = <<>> THEN <<item>>
    ELSE IF Head(sorted).score <= item.score
         THEN <<Head(sorted)>> \o InsertAsc(Tail(sorted), item)
         ELSE <<item>> \o sorted

RECURSIVE SortAsc(_)
SortAsc(rows) ==
    IF rows = <<>> THEN <<>>
    ELSE InsertAsc(SortAsc(SubSeq(rows, 1, Len(rows) - 1)), rows[Len(rows)])

Reverse(rows) == [i \in 1..Len(rows) |-> rows[Len(rows) + 1 - i]]

\* mutant of the sort: sorted(rows, key=...)[::-1], which reverses ties
SortReversed(rows) == Reverse(SortAsc(rows))

RECURSIVE SortByScoreDesc(_)
SortByScoreDesc(rows) ==
    IF rows = <<>> THEN <<>>
    ELSE InsertDesc(SortByScoreDesc(SubSeq(rows, 1, Len(rows) - 1)), rows[Len(rows)])

\* the lines a run may meet when its files are not given in advance
FilterLines ==
    { <<"s","u","n","f","l","o","w","e","r",".","c","o","m">>,
      <<"S","u","n",".","c","o","m",",","9">>,
      <<"s","u","n","4",".","c","o","m">>,
      <<"s","u","n","-","f","l","o","w","e","r",".","c","o",".","u","k">>,
      <<" ">> }

BrandLines ==
    { <<"N","a","n","o",".","c","o","m">>,
      <<"n","a","n","o","v",".","c","o","m">>,
      <<"a","n","o","n",".","c","o","m">>,
      <<"n","a","n","o",".","c","o",".","u","k">> }

IsFilterMode == mode \in {"exact", "broad"}

\* the outer loop has another file item
MoreFiles == IF files.given THEN fidx < Len(files.items) ELSE fidx < MaxFiles

\* the iterator of the current file has another line
MoreLines ==
    IF files.given THEN ridx < Len(files.items[fidx].lines) ELSE ridx < MaxRecs

NextLines ==
    IF files.given THEN {files.items[fidx].lines[ridx + 1]}
    ELSE IF IsFilterMode THEN FilterLines ELSE BrandLines

\* history kept beside the code: the record r has been scanned
Observe(r) ==
    IF r = None \/ Full(r.sld, r.tld) \in Range(first_seen) THEN first_seen
    ELSE Append(first_seen, Full(r.sld, r.tld))

\* for fi in files: (enter the next file item)
NextFile ==
    /\ pc = "file"
    /\ MoreFiles
    /\ fidx' = fidx + 1
    /\ suffix' \in (IF files.given THEN {files.items[fidx + 1].suffix} ELSE {TXT, CSV})
    /\ ridx' = 0
    /\ pc' = "record"
    /\ UNCHANGED <<mode, useTldx, words, settings, files, results_com, results_others,
                   seen, processed, ret, yielded, first_seen, arg, out>>

\* the iterator passes over a line that yields no record
SkipLine ==
    /\ pc = "record"
    /\ MoreLines
    /\ \E line \in NextLines : ~Yields(line, suffix)
    /\ ridx' = ridx + 1
    /\ UNCHANGED <<mode, useTldx, words, settings, files, fidx, suffix, pc, results_com,
                   results_others, seen, processed, ret, yielded, first_seen, arg, out>>

\* the iterator of the current file is exhausted
EndFile ==
    /\ pc = "record"
    /\ files.given => ~MoreLines
    /\ pc' = "file"
    /\ UNCHANGED <<mode, useTldx, words, settings, files, fidx, suffix, ridx,
                   results_com, results_others, seen, processed, ret, yielded,
                   first_seen, arg, out>>

\* the loop body of run_filter for the record raw
FilterBody(raw) ==
    \E r \in {get_sld_and_tld(raw, useTldx)} :
    LET full == Full(r.sld, r.tld)
        ok   == IF mode = "exact" THEN is_exact_word(r.sld, words)
                ELSE is_valid_english_combo(r.sld, words)
    IN  /\ processed' = Tally(processed, r)
        /\ first_seen' = Observe(r)
        /\ IF r.sld = <<>> \/ r.tld = <<>> THEN
              UNCHANGED <<seen, results_com, results_others>>
           ELSE IF AlreadySeen(full, seen) THEN
              UNCHANGED <<seen, results_com, results_others>>
           ELSE IF ~ok THEN
              UNCHANGED <<seen, results_com, results_others>>
           ELSE
              /\ seen' = seen \cup {full}
              /\ IF IsCom(r.tld)
                 THEN /\ results_com' = AppendResult(results_com, full)
                      /\ UNCHANGED results_others
                 ELSE /\ results_others' = AppendResult(results_others, full)
                      /\ UNCHANGED results_com

\* run_filter: the iterator yields a record and the loop body runs
FilterRecord ==
    /\ IsFilterMode
    /\ pc = "record"
    /\ MoreLines
    /\ \E line \in NextLines :
          /\ Yields(line, suffix)
          /\ \E raw \in {RecordOf(line, suffix)} : FilterBody(raw)
    /\ ridx' = ridx + 1
    /\ yielded' = yielded + 1
    /\ UNCHANGED <<mode, useTldx, words, settings, files, fidx, suffix, pc, ret,
                   arg, out>>

\* after the loops of run_filter: return
FinishFilter ==
    /\ IsFilterMode
    /\ pc = "file"
    /\ files.given => ~MoreFiles
    /\ pc' = "done"
    /\ ret' = [processed |-> processed,
               nfiles |-> IF files.given THEN Len(files.items) ELSE fidx]
    /\ UNCHANGED <<mode, useTldx, words, settings, files, fidx, suffix, ridx,
                   results_com, results_others, seen, processed, yielded,
                   first_seen, arg, out>>

\* the loop body of run_brandables for the record raw
BrandBody(raw) ==
    \E r \in {get_sld_and_tld(raw, useTldx)} :
    \E sc \in {brandability_score(r.sld, [settings EXCEPT !.words = words])} :
    LET full == Full(r.sld, r.tld)
        item == [domain |-> full, score |-> sc.score, pat |-> sc.pat]
    IN  /\ processed' = Tally(processed, r)
        /\ first_seen' = Observe(r)
        /\ IF r.sld = <<>> \/ r.tld = <<>> THEN
              UNCHANGED <<seen, results_com, results_others>>
           ELSE IF AlreadySeen(full, seen) THEN
              UNCHANGED <<seen, results_com, results_others>>
           ELSE IF ~Admits(sc.score, settings.score_threshold) THEN
              UNCHANGED <<seen, results_com, results_others>>
           ELSE
              /\ seen' = seen \cup {full}
              /\ IF IsCom(r.tld)
                 THEN /\ results_com' = AppendResult(results_com, item)
                      /\ UNCHANGED results_others
                 ELSE /\ results_others' = AppendResult(results_others, item)
                      /\ UNCHANGED results_com

\* run_brandables: the iterator yields a record and the loop body runs
BrandRecord ==
    /\ mode = "brandables"
    /\ pc = "record"
    /\ MoreLines
    /\ \E line \in NextLines :
          /\ Yields(line, suffix)
          /\ \E raw \in {RecordOf(line, suffix)} : BrandBody(raw)
    /\ ridx' = ridx + 1
    /\ yielded' = yielded + 1
    /\ UNCHANGED <<mode, useTldx, words, settings, files, fidx, suffix, pc, ret,
                   arg, out>>

\* after the loops of run_brandables: sort both buckets, return
FinishBrandables ==
    /\ mode = "brandables"
    /\ pc = "file"
    /\ files.given => ~MoreFiles
    /\ results_com' = SortByScoreDesc(results_com)
    /\ results_others' = SortByScoreDesc(results_others)
    /\ pc' = "done"
    /\ ret' = [processed |-> processed,
               nfiles |-> IF files.given THEN Len(files.items) ELSE fidx]
    /\ UNCHANGED <<mode, useTldx, words, settings, files, fidx, suffix, ridx,
                   seen, processed, yielded, first_seen, arg, out>>

---------------------------------------------------------------------------
(* Runs of the pipelines *)

\* the UI defaults of main(), with min_unique_chars at the slider's
\* minimum; vowel_min 0.33 and vowel_max 0.60 in hundredths
DefaultSettings ==
    [score_threshold |-> 20, min_len |-> 4, max_len |-> 8,
     vowel_min |-> 33, vowel_max |-> 60, max_consonant_run |-> 3,
     min_unique_chars |-> 3, reject_repeats |-> TRUE,
     reject_dictionary_words |-> FALSE,
     allowed_run_patterns |-> UI_DEFAULT_ALLOWED,
     strict_brandables |-> TRUE, max_rare_letters |-> 0, words |-> {}]

BrandSettings ==
    { [DefaultSettings EXCEPT !.score_threshold = 20],
      [DefaultSettings EXCEPT !.score_threshold = -50],
      [DefaultSettings EXCEPT !.score_threshold = -999],
      [DefaultSettings EXCEPT !.allowed_run_patterns = {}] }

NotGiven == [given |-> FALSE, items |-> <<>>]

RunStart ==
    /\ fidx = 0 /\ ridx = 0 /\ suffix = TXT /\ pc = "file"
    /\ results_com = <<>> /\ results_others = <<>>
    /\ seen = {} /\ processed = 0 /\ ret = NoRet
    /\ yielded = 0 /\ first_seen = <<>>
    /\ arg = <<>> /\ out = None

Init ==
    /\ words = load_words(WORDLIST_FILE)
    /\ useTldx \in BOOLEAN
    /\ files = NotGiven
    /\ \/ /\ mode \in {"exact", "broad"}
          /\ settings = DefaultSettings
       \/ /\ mode = "brandables"
          /\ settings \in BrandSettings
    /\ RunStart

Next ==
    \/ NextFile
    \/ SkipLine
    \/ EndFile
    \/ FilterRecord
    \/ FinishFilter
    \/ BrandRecord
    \/ FinishBrandables

Spec == Init /\ [][Next]_vars

FairSpec == Init /\ [][Next]_vars /\ WF_vars(Next)

---------------------------------------------------------------------------
(* The end-to-end scenario: run_filter over one given file *)

Scenario ==
    << <<"s","u","n","f","l","o","w","e","r",".","c","o","m">>,
       <<"s","u","n","f","l","o","w","e","r",".","c","o","m">>,
       <<"r","a","n","d","o","m","1","2","3",".","n","e","t">>,
       <<"S","U","N",".","C","O","M">> >>

ScenarioLines == Range(Scenario) \cup { <<" ">> }

InitScenario ==
    /\ words = load_words(WORDLIST_FILE)
    /\ useTldx \in BOOLEAN
    /\ mode \in {"exact", "broad"}
    /\ settings = DefaultSettings
    /\ \E sfx \in {TXT, CSV}, ls \in [1..Len(Scenario) -> ScenarioLines] :
          files = [given |-> TRUE, items |-> << [suffix |-> sfx, lines |-> ls] >>]
    /\ RunStart

NextScenario ==
    \/ NextFile
    \/ SkipLine
    \/ EndFile
    \/ FilterRecord
    \/ FinishFilter

SpecScenario == InitScenario /\ [][NextScenario]_vars

---------------------------------------------------------------------------
(* Single calls of the pure functions *)

MaxRawLen == 3
MaxLabelLen == 6
MaxChunkLabel == 12

SeqsUpTo(S, n) == UNION {[1..k -> S] : k \in 0..n}

Idle ==
    /\ files = NotGiven /\ fidx = 0 /\ ridx = 0 /\ suffix = TXT
    /\ results_com = <<>> /\ results_others = <<>>
    /\ seen = {} /\ processed = 0 /\ ret = NoRet
    /\ yielded = 0 /\ first_seen = <<>>

IdleUnchanged ==
    UNCHANGED <<mode, useTldx, words, settings, files, fidx, suffix, ridx,
                results_com, results_others, seen, processed, ret, yielded,
                first_seen, arg>>

(* get_sld_and_tld *)

SplitPrefixes ==
    { <<>>, <<"w","w","w",".">>, <<"h","t","t","p",":","/","/">>, <<"H","T","T","P","S",":","/","/","w","w","w",".">> }

SplitChars == {"e", "X", "4", "!", "-", "."}

SplitTails ==
    { <<>>, <<".","c","o","m">>, <<".","c","o",".","u","k">>, <<".","c","o","m","\""," ">> }

RawInputs ==
    { p \o c \o tl : p \in SplitPrefixes, c \in SeqsUpTo(SplitChars, MaxRawLen),
                     tl \in SplitTails }

InitSplit ==
    /\ mode = "split" /\ pc = "call"
    /\ words = {} /\ settings = DefaultSettings
    /\ useTldx \in BOOLEAN
    /\ arg \in RawInputs
    /\ out = None
    /\ Idle

CallSplit ==
    /\ mode = "split" /\ pc = "call"
    /\ out' = get_sld_and_tld(arg, useTldx)
    /\ pc' = "return"
    /\ IdleUnchanged

NextSplit == CallSplit

SpecSplit == InitSplit /\ [][NextSplit]_vars

(* is_valid_english_combo *)

ComboChars == {"a", "b", "-"}

ComboWords ==
    { <<"a","b">>, <<"a","b","a">>, <<"b","a","b">>, <<"a","b","a","b">> }

InitCombo ==
    /\ mode = "combo" /\ pc = "call"
    /\ useTldx = FALSE /\ settings = DefaultSettings
    /\ words \in SUBSET ComboWords
    /\ arg \in SeqsUpTo(ComboChars, MaxLabelLen)
    /\ out = FALSE
    /\ Idle

CallCombo ==
    /\ mode = "combo" /\ pc = "call"
    /\ out' = is_valid_english_combo(arg, words)
    /\ pc' = "return"
    /\ IdleUnchanged

NextCombo == CallCombo

SpecCombo == InitCombo /\ [][NextCombo]_vars

(* has_repeated_chunk and check 8 of brandability_score *)

ChunkChars == {"a", "k"}

\* max_len at the slider's maximum, so that long labels reach check 8
ChunkSettings ==
    { [DefaultSettings EXCEPT !.max_len = 20, !.allowed_run_patterns = {},
                              !.reject_repeats = b] : b \in BOOLEAN }

InitChunk ==
    /\ mode = "chunk" /\ pc = "call"
    /\ useTldx = FALSE /\ words = {}
    /\ settings \in ChunkSettings
    /\ arg \in { <<"e">> \o b : b \in SeqsUpTo(ChunkChars, MaxChunkLabel) }
    /\ out = [flag |-> FALSE, score |-> 0, pat |-> <<>>]
    /\ Idle

CallChunk ==
    /\ mode = "chunk" /\ pc = "call"
    /\ out' = [out EXCEPT !.flag = has_repeated_chunk(arg, 2, 3)]
    /\ pc' = "chunk"
    /\ IdleUnchanged

CallScore ==
    /\ mode = "chunk" /\ pc = "call"
    /\ LET sc == brandability_score(arg, settings)
       IN  out' = [out EXCEPT !.score = sc.score, !.pat = sc.pat]
    /\ pc' = "score"
    /\ IdleUnchanged

NextChunk == CallChunk \/ CallScore

SpecChunk == InitChunk /\ [][NextChunk]_vars

---------------------------------------------------------------------------
(* Properties *)

\* the domain of a result record
DomainOf(item) == IF mode = "brandables" THEN item.domain ELSE item

Domains(bucket) == [i \in 1..Len(bucket) |-> DomainOf(bucket[i])]

Emitted == Domains(results_com) \o Domains(results_others)

FirstDot(full) == CHOOSE i \in 1..Len(full) :
                     full[i] = "." /\ \A j \in 1..(i - 1) : full[j] # "."

\* label and suffix of a full domain label.suffix (a label has no dot)
LabelOf(full) == SubSeq(full, 1, FirstDot(full) - 1)

SuffixOf(full) == SubSeq(full, FirstDot(full) + 1, Len(full))

\* position of d in the history of first occurrences
FirstPos(d) == CHOOSE k \in 1..Len(first_seen) : first_seen[k] = d

\* the run is a run of one of the two pipelines
IsRun == mode \in {"exact", "broad", "brandables"}

ScoreOf(label) == brandability_score(label, [settings EXCEPT !.words = words])

\* the matcher or scorer of the run admits the label
Passes(label) ==
    IF mode = "exact" THEN is_exact_word(label, words)
    ELSE IF mode = "broad" THEN is_valid_english_combo(label, words)
    ELSE ScoreOf(label).score >= settings.score_threshold

(* C1: in every mode, in every state of a run, no full domain occurs more
   than once in the .com bucket and the other bucket taken together. *)
C1_GlobalDedup ==
    IsRun => \A i, j \in 1..Len(Emitted) : Emitted[i] = Emitted[j] => i = j

\* two files of two records each, all four records the same domain
C1_Witness ==
    /\ mode = "exact" /\ pc = "done" /\ fidx = 2 /\ processed = 4
    /\ first_seen = << <<"s","u","n",".","c","o","m">> >>
    /\ results_com = << <<"s","u","n",".","c","o","m">> >>

(* C2: in exact and broad mode each bucket lists its domains in the order
   of their first occurrence in the scan. *)
C2_FirstSeenOrder ==
    IsFilterMode =>
        \A b \in {results_com, results_others} :
            /\ \A i \in 1..Len(b) : b[i] \in Range(first_seen)
            /\ \A i, j \in 1..Len(b) : i < j => FirstPos(b[i]) < FirstPos(b[j])

C2_Witness ==
    /\ IsFilterMode /\ pc = "done"
    /\ Len(results_com) = 2 /\ Len(results_others) = 1
    /\ Len(first_seen) = 3 /\ first_seen[2] = results_others[1]

(* C3: after run_brandables each bucket is ordered by score, highest
   first, and records of equal score keep the order in which they were
   admitted during the scan. *)
C3_BrandablesOrdering ==
    (mode = "brandables" /\ pc = "done") =>
        \A b \in {results_com, results_others} :
            \A i, j \in 1..Len(b) :
                i < j =>
                    /\ b[i].score >= b[j].score
                    /\ b[i].score = b[j].score =>
                          FirstPos(b[i].domain) < FirstPos(b[j].domain)

\* three scores, admitted lowest first, returned highest first
C3_Witness ==
    /\ mode = "brandables" /\ pc = "done"
    /\ Len(results_com) = 3
    /\ results_com[1].score > results_com[2].score
    /\ results_com[2].score > results_com[3].score
    /\ first_seen[1] = results_com[3].domain

ScenarioRun ==
    /\ mode = "exact" /\ pc = "done"
    /\ files.given /\ files.items[1].lines = Scenario

RandomNet == <<"r","a","n","d","o","m",".","n","e","t">>

(* C4, amended: on the scenario file the exact run returns the .com bucket
   sunflower.com, sun.com (the order of first occurrence) and random.net
   is in no bucket. *)
C4_ScenarioFirstSeen ==
    ScenarioRun =>
        /\ results_com = << <<"s","u","n","f","l","o","w","e","r",".","c","o","m">>, <<"s","u","n",".","c","o","m">> >>
        /\ \A i \in 1..Len(Emitted) : Emitted[i] # RandomNet

C4_Witness == ScenarioRun /\ ret = [processed |-> 4, nfiles |-> 1]

\* C4 as stated: the .com bucket is sun.com, sunflower.com in that order
C4_Original ==
    ScenarioRun =>
        /\ results_com = << <<"s","u","n",".","c","o","m">>, <<"s","u","n","f","l","o","w","e","r",".","c","o","m">> >>
        /\ \A i \in 1..Len(Emitted) : Emitted[i] # RandomNet

\* the maximal hyphen-free stretches of s, as pairs of positions
HyphenParts(s) ==
    { <<i, j>> \in (1..Len(s)) \X (1..Len(s)) :
         /\ i <= j
         /\ \A k \in i..j : s[k] # "-"
         /\ (i = 1 \/ s[i - 1] = "-")
         /\ (j = Len(s) \/ s[j + 1] = "-") }

(* C5: for a non-empty label s and any word set W, is_valid_english_combo
   is true exactly when s is in W, or s has a hyphen and its two or more
   non-empty hyphen-separated parts are all in W, or s = u v with u and v
   in W and both at least 3 characters long. *)
C5_BroadIsDisjunction ==
    (mode = "combo" /\ pc = "return" /\ arg # <<>>) =>
        (out <=>
            \/ arg \in words
            \/ /\ Contains(arg, "-")
               /\ Cardinality(HyphenParts(arg)) >= 2
               /\ \A q \in HyphenParts(arg) : SubSeq(arg, q[1], q[2]) \in words
            \/ \E u, v \in words :
                  Len(u) >= 3 /\ Len(v) >= 3 /\ arg = u \o v)

\* a concatenation match, in a dictionary that also offers a split with a
\* two-letter half
C5_Witness ==
    /\ mode = "combo" /\ pc = "return" /\ out = TRUE
    /\ arg = <<"a","b","a","b","a","b">>
    /\ words = ComboWords \ { <<"a","b","a","b">> }

LastDot(d) == CHOOSE i \in 1..Len(d) :
                 d[i] = "." /\ \A j \in (i + 1)..Len(d) : d[j] # "."

\* the part of d after its last dot, and the part between the last dot
\* and the dot before it
AfterLastDot(d) == SubSeq(d, LastDot(d) + 1, Len(d))

BeforeLastDot(d) ==
    LET h == SubSeq(d, 1, LastDot(d) - 1)
    IN  IF Contains(h, ".") THEN SubSeq(h, LastDot(h) + 1, Len(h)) ELSE h

RECURSIVE OnlyLabelChars(_)
OnlyLabelChars(s) ==
    IF s = <<>> THEN <<>>
    ELSE IF Head(s) \in LowerLetters \cup {"-"}
         THEN <<Head(s)>> \o OnlyLabelChars(Tail(s))
         ELSE OnlyLabelChars(Tail(s))

(* C6: get_sld_and_tld returns (none, none) or a pair of a non-empty label
   over a-z and '-' and a non-empty suffix; it fails exactly when the
   cleaned label or the suffix is empty; in the fallback the suffix is
   the part after the last dot, the label is the part before it with
   every other character removed, and an input without a dot fails. *)
C6_SplitterShape ==
    (mode = "split" /\ pc = "return") =>
        LET d == NormalizeRaw(arg)
        IN  /\ \/ out = None
               \/ /\ out.sld # <<>> /\ out.tld # <<>>
                  /\ \A i \in 1..Len(out.sld) : out.sld[i] \in LowerLetters \cup {"-"}
            /\ useTldx =>
                  (out = None <=>
                      \/ OnlyLabelChars(TLDX(d).domain) = <<>>
                      \/ TLDX(d).suffix = <<>>)
            /\ ~useTldx =>
                  IF ~Contains(d, ".") THEN out = None
                  ELSE IF OnlyLabelChars(BeforeLastDot(d)) = <<>> \/ AfterLastDot(d) = <<>>
                       THEN out = None
                       ELSE out = [sld |-> OnlyLabelChars(BeforeLastDot(d)),
                                   tld |-> AfterLastDot(d)]

\* a label that loses a digit and a punctuation mark
C6_Witness ==
    /\ mode = "split" /\ pc = "return" /\ ~useTldx
    /\ arg = <<"e","4","!",".","c","o","m">>
    /\ out = [sld |-> <<"e">>, tld |-> <<"c","o","m">>]

\* s has a stretch of n characters followed by two further copies of it,
\* for some n in sizes
HasTriple(s, sizes) ==
    \E n \in sizes : \E i \in 1..Len(s) :
        /\ i + 3 * n - 1 <= Len(s)
        /\ LET c == SubSeq(s, i, i + n - 1)
           IN  SubSeq(s, i, i + 3 * n - 1) = c \o c \o c

\* the label passes every hard check of the scorer other than check 8
PassesOtherChecks ==
    brandability_score(arg, [settings EXCEPT !.reject_repeats = FALSE]).score # -999

(* C9, amended: has_repeated_chunk(s, 2, 3) is true exactly when s
   contains a stretch of 2, 3 or 4 characters repeated three times in a
   row, and with reject_repeats set check 8 rejects exactly those labels. *)
C9_ChunkUpTo4 ==
    /\ (mode = "chunk" /\ pc = "chunk") => (out.flag <=> HasTriple(arg, {2, 3, 4}))
    /\ (mode = "chunk" /\ pc = "score" /\ settings.reject_repeats /\ PassesOtherChecks)
          => (out.score = -999 <=> HasTriple(arg, {2, 3, 4}))

\* a label rejected by check 8 for a chunk of four characters only
C9_Witness ==
    /\ mode = "chunk" /\ pc = "score" /\ settings.reject_repeats /\ PassesOtherChecks
    /\ out.score = -999
    /\ ~HasTriple(arg, {2, 3})

\* C9 as stated: only chunks of 2 or 3 characters are detected
C9_Original ==
    /\ (mode = "chunk" /\ pc = "chunk") => (out.flag <=> HasTriple(arg, {2, 3}))
    /\ (mode = "chunk" /\ pc = "score" /\ settings.reject_repeats /\ PassesOtherChecks)
          => (out.score = -999 <=> HasTriple(arg, {2, 3}))

(* C8: every admitted domain is in exactly one bucket, in the .com bucket
   exactly when its suffix is com, and seen is the set of the domains in
   the two buckets. *)
C8_BucketPartition ==
    IsRun =>
        /\ \A d \in Range(Domains(results_com)) : SuffixOf(d) = <<"c","o","m">>
        /\ \A d \in Range(Domains(results_others)) : SuffixOf(d) # <<"c","o","m">>
        /\ Range(Domains(results_com)) \cap Range(Domains(results_others)) = {}
        /\ seen = Range(Domains(results_com)) \cup Range(Domains(results_others))

\* a co.uk domain in the other bucket, a .com domain, a rejected domain
C8_Witness ==
    /\ IsRun /\ Len(results_com) > 0
    /\ \E d \in Range(Domains(results_others)) : SuffixOf(d) = <<"c","o",".","u","k">>
    /\ \E d \in Range(first_seen) : d \notin seen

(* C10: every record run_brandables emits carries the score and pattern of
   brandability_score for its label and a score >= score_threshold, and
   every scanned domain with such a score is emitted; so for a threshold
   above -50 no emitted label is hard-rejected and, with a non-empty
   allowed_run_patterns, every emitted pattern is allowed. *)
C10_ThresholdOnly ==
    mode = "brandables" =>
        /\ \A b \in {results_com, results_others} : \A i \in 1..Len(b) :
              /\ b[i].score = ScoreOf(LabelOf(b[i].domain)).score
              /\ b[i].pat = ScoreOf(LabelOf(b[i].domain)).pat
              /\ b[i].score >= settings.score_threshold
              /\ settings.score_threshold > -50 =>
                    /\ b[i].score # -999
                    /\ settings.allowed_run_patterns # {} =>
                          b[i].pat \in settings.allowed_run_patterns
        /\ \A d \in Range(first_seen) :
              ScoreOf(LabelOf(d)).score >= settings.score_threshold => d \in seen

\* threshold 20 with allowed patterns: two emitted, one scanned and left out
C10_Witness ==
    /\ mode = "brandables" /\ pc = "done"
    /\ settings.score_threshold = 20 /\ settings.allowed_run_patterns # {}
    /\ Len(results_com) = 2
    /\ \E d \in Range(first_seen) : d \notin seen

(* C7: a run always completes; at every moment the buckets hold every
   domain scanned so far that passes the matcher or scorer, whatever was
   skipped before it; the returned record count is the number of records
   the files yielded and the returned file count the number of files. *)
C7_SkipsNeverAbort ==
    /\ <>(pc = "done")
    /\ [](seen = {d \in Range(first_seen) : Passes(LabelOf(d))})
    /\ [](pc = "done" => ret = [processed |-> yielded, nfiles |-> fidx])

\* a finished run of four records over two files in which a rejected
\* domain precedes an admitted one
C7_Witness ==
    /\ pc = "done" /\ fidx = 2
    /\ \E i, j \in 1..Len(first_seen) :
          i < j /\ first_seen[i] \notin seen /\ first_seen[j] \in seen
    /\ ret.processed = 4 /\ Len(first_seen) = 2

====
